---- MODULE Spec2Model ----
(***************************************************************************)
(* A model of server.py: a single-threaded forwarding HTTP/HTTPS proxy.    *)
(*                                                                         *)
(* Bytes objects are sequences of one-character strings, so that the       *)
(* request parsing (split, strip, int, startswith, urlparse) is computed   *)
(* as the code computes it.  A payload the proxy only copies (an origin    *)
(* response, a tunnelled byte, a fixed status message) is a sequence of    *)
(* opaque bytes.                                                           *)
(***************************************************************************)
EXTENDS Integers, Sequences, FiniteSets, TLC

VARIABLES
    pc,        \* where the single thread of start_proxy_server is blocked
    accepted,  \* number of connections accept() has returned
    request,   \* bytes returned by client_socket.recv(4096) (line 58)
    reqline,   \* method and url as unpacked at line 61 (exc: the unpacking raised)
    client,    \* the accepted client socket and its peer
    cache,     \* the files of cache_dir: cache file name -> contents
    cacheLog,  \* cache file operations made for the current connection
    origin,    \* the plaintext origin socket of the current GET/POST
    tunnel,    \* the upstream socket and byte streams of the current CONNECT
    prev,      \* the round trip of the previous connection (history)
    cache0     \* the cache files when the current connection was accepted (history)

vars == <<pc, accepted, request, reqline, client, cache, cacheLog, origin,
          tunnel, prev, cache0>>

----------------------------------------------------------------------------
(* Bounds of the model.                                                    *)

MaxConns == 2      \* connections accepted in one run
MaxResp == 2       \* bytes an origin sends before closing
MaxTunnel == 2     \* bytes each tunnel peer sends

----------------------------------------------------------------------------
(* Python bytes / str primitives.                                          *)

Min(S) == CHOOSE x \in S : \A y \in S : x <= y

Whitespace == {" ", "\t", "\n", "\r", "\f"}

DigitChars == <<"0", "1", "2", "3", "4", "5", "6", "7", "8", "9">>

LowerChars == <<"a", "b", "c", "d", "e", "f", "g", "h", "i", "j", "k", "l", "m",
                "n", "o", "p", "q", "r", "s", "t", "u", "v", "w", "x", "y", "z">>

UpperChars == <<"A", "B", "C", "D", "E", "F", "G", "H", "I", "J", "K", "L", "M",
                "N", "O", "P", "Q", "R", "S", "T", "U", "V", "W", "X", "Y", "Z">>

Range(s) == {s[i] : i \in 1..Len(s)}

IsDigit(c) == c \in Range(DigitChars)

IsAlpha(c) == c \in Range(LowerChars) \cup Range(UpperChars)

DigitVal(c) == (CHOOSE i \in 1..10 : DigitChars[i] = c) - 1

\* str.lower() on one character
LowerChar(c) ==
    IF c \in Range(UpperChars)
    THEN LowerChars[CHOOSE i \in 1..26 : UpperChars[i] = c]
    ELSE c

Lower(s) == [i \in 1..Len(s) |-> LowerChar(s[i])]

\* s[i:] with a 1-based first index
From(s, i) == SubSeq(s, i, Len(s))

\* s.startswith(p)
StartsWith(s, p) == Len(s) >= Len(p) /\ SubSeq(s, 1, Len(p)) = p

\* s.find(sub), 1-based; 0 when absent
Find(s, sub) ==
    LET hits == {i \in 1..(Len(s) - Len(sub) + 1) :
                     SubSeq(s, i, i + Len(sub) - 1) = sub}
    IN  IF hits = {} THEN 0 ELSE Min(hits)

\* sub in s
Contains(s, sub) == Find(s, sub) # 0

\* s.split(sep) for a non-empty separator
RECURSIVE Split(_, _)
Split(s, sep) ==
    LET i == Find(s, sep)
    IN  IF i = 0
        THEN <<s>>
        ELSE <<SubSeq(s, 1, i - 1)>> \o Split(From(s, i + Len(sep)), sep)

\* s.lstrip(chars)
RECURSIVE LStrip(_, _)
LStrip(s, chars) ==
    IF s # <<>> /\ s[1] \in chars THEN LStrip(Tail(s), chars) ELSE s

\* s.rstrip(chars)
RECURSIVE RStrip(_, _)
RStrip(s, chars) ==
    IF s # <<>> /\ s[Len(s)] \in chars
    THEN RStrip(SubSeq(s, 1, Len(s) - 1), chars)
    ELSE s

\* s.strip()
Strip(s) == RStrip(LStrip(s, Whitespace), Whitespace)

\* s.split(): split on runs of whitespace, no empty strings
RECURSIVE SplitWS(_)
SplitWS(s) ==
    LET t == LStrip(s, Whitespace)
        ws == {i \in 1..Len(t) : t[i] \in Whitespace}
    IN  IF t = <<>> THEN <<>>
        ELSE IF ws = {} THEN <<t>>
        ELSE <<SubSeq(t, 1, Min(ws) - 1)>> \o SplitWS(From(t, Min(ws)))

\* the value of a non-empty string of decimal digits
RECURSIVE DecimalValue(_)
DecimalValue(ds) ==
    IF ds = <<>> THEN 0
    ELSE 10 * DecimalValue(SubSeq(ds, 1, Len(ds) - 1)) + DigitVal(ds[Len(ds)])

AllDigits(s) == s # <<>> /\ \A i \in 1..Len(s) : IsDigit(s[i])

\* int(s): an optional sign and decimal digits; anything else raises ValueError.
\* (Surrounding whitespace is accepted by int() as well.)
PyInt(s) ==
    LET t == Strip(s)
        signed == t # <<>> /\ t[1] \in {"+", "-"}
        ds == IF signed THEN Tail(t) ELSE t
    IN  IF AllDigits(ds)
        THEN [exc |-> FALSE,
              val |-> IF signed /\ t[1] = "-" THEN 0 - DecimalValue(ds)
                      ELSE DecimalValue(ds)]
        ELSE [exc |-> TRUE, val |-> 0]

----------------------------------------------------------------------------
(* urllib.parse.urlparse, for URLs without '?', '#', ';', '@' and '['.     *)

SchemeChars == Range(LowerChars) \cup Range(UpperChars) \cup Range(DigitChars)
                 \cup {"+", "-", "."}

\* urlsplit(url): scheme, netloc and path
urlparse(url) ==
    LET i == Find(url, <<":">>)
        hasScheme == /\ i > 1
                     /\ IsAlpha(url[1])
                     /\ \A k \in 1..(i - 1) : url[k] \in SchemeChars
        scheme == IF hasScheme THEN Lower(SubSeq(url, 1, i - 1)) ELSE <<>>
        rest == IF hasScheme THEN From(url, i + 1) ELSE url
        hasNetloc == StartsWith(rest, <<"/", "/">>)
        after == From(rest, 3)
        delims == {k \in 1..Len(after) : after[k] = "/"}
        delim == IF delims = {} THEN Len(after) + 1 ELSE Min(delims)
    IN  [scheme |-> scheme,
         netloc |-> IF hasNetloc THEN SubSeq(after, 1, delim - 1) ELSE <<>>,
         path |-> IF hasNetloc THEN From(after, delim) ELSE rest]

\* None, as the value of .hostname: the empty string is never a hostname
None == <<>>

\* the value of .port when the netloc names no port
NoPort == -1

MAX_PORT == 65535

\* SplitResult.hostname: the netloc up to its first ':', lower-cased, or None
hostname(parsed) ==
    LET i == Find(parsed.netloc, <<":">>)
        h == IF i = 0 THEN parsed.netloc ELSE SubSeq(parsed.netloc, 1, i - 1)
    IN  IF h = <<>> THEN None ELSE Lower(h)

\* SplitResult.port: None, an integer in 0..65535, or ValueError
port(parsed) ==
    LET i == Find(parsed.netloc, <<":">>)
        p == IF i = 0 THEN <<>> ELSE From(parsed.netloc, i + 1)
    IN  IF p = <<>> THEN [exc |-> FALSE, val |-> NoPort]
        ELSE IF ~AllDigits(p) THEN [exc |-> TRUE, val |-> NoPort]
        ELSE IF DecimalValue(p) > MAX_PORT THEN [exc |-> TRUE, val |-> NoPort]
        ELSE [exc |-> FALSE, val |-> DecimalValue(p)]

----------------------------------------------------------------------------
(* Byte strings of the program and of the requests offered to it.          *)

GET == <<"G", "E", "T">>
POST == <<"P", "O", "S", "T">>
CONNECT == <<"C", "O", "N", "N", "E", "C", "T">>
HTTP_PREFIX == <<"h", "t", "t", "p">>
HTTP_SCHEME == <<"h", "t", "t", "p", ":", "/", "/">>
CONTENT_LENGTH == <<"C", "o", "n", "t", "e", "n", "t", "-",
                    "L", "e", "n", "g", "t", "h">>
LF == <<"\n">>
CRLF == <<"\r", "\n">>
CRLFCRLF == <<"\r", "\n", "\r", "\n">>
COLON == <<":">>
SLASH == <<"/">>

\* the status messages the proxy writes, each one opaque block of bytes
MSG_200 == <<"HTTP/1.1 200 Connection Established\r\n\r\n">>
MSG_400 == <<"HTTP/1.1 400 Bad Request\r\n\r\n">>
MSG_405 == <<"HTTP/1.1 405 Method Not Allowed\r\n\r\n">>
MSG_500 == <<"HTTP/1.1 500 Internal Server Error\r\n\r\n">>

StatusMessages == {MSG_200, MSG_400, MSG_405, MSG_500}

DEFAULT_TUNNEL_PORT == 443
ORIGIN_PORT == 80

\* request pieces
SP == <<" ">>
VERSION == <<"H", "T", "T", "P", "/", "1", ".", "1">>
DELETE == <<"D", "E", "L", "E", "T", "E">>
LowerGet == <<"g", "e", "t">>
UrlAX == <<"h", "t", "t", "p", ":", "/", "/", "a", "/", "x">>
UrlPathAX == <<"a", "/", "x">>
UrlHttpbin == <<"h", "t", "t", "p", "b", "i", "n", "/", "x">>
UrlNoHost == <<"/">>
TargetTunnel == <<"/", "/", "h", ":", "8", "4", "4", "3">>
TargetTunnelDefault == <<"/", "/", "H">>
TargetAuthority == <<"h", ":", "4", "4", "3">>
TargetBadPort == <<"/", "/", "h", ":", "9", "9", "9", "9", "9">>
Hello == <<"h", "e", "l", "l", "o">>
Trailing == <<"X", "Y">>
Header(name, value) == name \o <<":", " ">> \o value \o CRLF
RequestLine(method, target) == method \o SP \o target \o SP \o VERSION \o CRLF

\* what client_socket.recv(4096) may return
GetRequests ==
    {RequestLine(GET, u) \o CRLF : u \in {UrlAX, UrlPathAX, UrlHttpbin, UrlNoHost}}

PostRequests ==
    { \* Content-Length: 5 and exactly five body bytes
      RequestLine(POST, UrlAX) \o Header(CONTENT_LENGTH, <<"5">>) \o CRLF \o Hello,
      \* the same with bytes after the body in the buffered read
      RequestLine(POST, UrlAX) \o Header(CONTENT_LENGTH, <<"5">>) \o CRLF
          \o Hello \o Trailing,
      \* no Content-Length header
      RequestLine(POST, UrlAX) \o CRLF \o Hello,
      \* two Content-Length headers
      RequestLine(POST, UrlPathAX) \o Header(CONTENT_LENGTH, <<"5">>)
          \o Header(CONTENT_LENGTH, <<"2">>) \o CRLF \o Hello,
      \* a Content-Length that is no integer
      RequestLine(POST, UrlAX) \o Header(CONTENT_LENGTH, <<"x">>) \o CRLF \o Hello,
      \* bare-LF line ends: no CRLFCRLF separator in the request
      POST \o SP \o UrlAX \o SP \o VERSION \o LF \o CONTENT_LENGTH \o <<":", "5">>
          \o LF \o LF \o Hello }

RejectedRequests ==
    { RequestLine(DELETE, UrlAX) \o CRLF,
      RequestLine(LowerGet, UrlAX) \o CRLF,
      RequestLine(DELETE, UrlNoHost) \o CRLF }

MalformedRequests ==
    { <<>>,
      GET,
      GET \o SP \o UrlAX \o CRLF,
      GET \o SP \o UrlAX \o SP \o VERSION \o SP \o <<"x">> \o CRLF }

ConnectRequests ==
    {RequestLine(CONNECT, t) \o CRLF :
        t \in {TargetTunnel, TargetTunnelDefault, TargetAuthority, TargetBadPort}}

Requests ==
    GetRequests \cup PostRequests \cup RejectedRequests \cup MalformedRequests
        \cup ConnectRequests

----------------------------------------------------------------------------
(* Sockets, the cache directory and the environment.                       *)

\* origin response bytes and the bytes the tunnel peers send, in order
OriginBytes == <<"r1", "r2", "r3", "r4">>
ClientBytes == <<"c1", "c2", "c3", "c4">>
UpstreamBytes == <<"u1", "u2", "u3", "u4">>

Absent == <<"absent">>

\* get_cache_filename(url): cache_dir joined with the MD5 hex digest of the
\* URL text.  MD5 is taken to be injective on the URLs of the model, so the
\* digest is represented by the text it was computed from.
get_cache_filename(url) == <<"cache">> \o SLASH \o <<"md5">> \o url

CacheFiles == {get_cache_filename(u) : u \in {UrlAX, UrlPathAX, UrlHttpbin, UrlNoHost}}

NoOrigin == [state |-> "none", conns |-> 0, port |-> NoPort, sent |-> <<>>,
             response |-> <<>>]

NoTunnel == [state |-> "none", host |-> None, port |-> NoPort,
             raw |-> "none", tls |-> "none",
             cSent |-> 0, cRead |-> 0, toUp |-> <<>>,
             uSent |-> 0, uRead |-> 0, uPeer |-> "open"]

NoPrev == [method |-> <<>>, url |-> <<>>, roundtrip |-> FALSE, stored |-> FALSE]


\* what the environment decides while one request is dispatched
Env == [connectOK : BOOLEAN, tlsOK : BOOLEAN, sendOK : BOOLEAN,
        cacheReadOK : BOOLEAN]

\* the outcome of a step of the dispatcher
Outcome(p, c, files, log, o, t) ==
    [pc |-> p, client |-> c, cache |-> files, cacheLog |-> log,
     origin |-> o, tunnel |-> t]

\* client_socket.sendall(data): raises when the peer has reset the connection
sendall(c, data) ==
    IF c.peer = "reset"
    THEN [exc |-> TRUE, client |-> c]
    ELSE [exc |-> FALSE, client |-> [c EXCEPT !.out = Append(@, data)]]

\* client_socket.close()
close(c) == [c EXCEPT !.closed = TRUE]

\* a variant of ExceptHandler that reports the failure as a server error
ExceptHandler500(c) ==
    LET s == sendall(c, MSG_500)
    IN  IF s.exc
        THEN [pc |-> "crashed", client |-> c]
        ELSE [pc |-> "accept", client |-> close(s.client)]

\* The handler of lines 145-149: send 400, then close.  When the send raises,
\* the exception leaves handle_client_request; start_proxy_server catches
\* nothing, so the process stops with the socket never closed.
ExceptHandler(c) ==
    LET s == sendall(c, MSG_400)
    IN  IF s.exc
        THEN [pc |-> "crashed", client |-> c]
        ELSE [pc |-> "accept", client |-> close(s.client)]

\* an exception raised inside the try of handle_client_request
Failed(c, files, log, o, t) ==
    LET h == ExceptHandler(c)
    IN  Outcome(h.pc, h.client, files, log, o, t)

\* sendall(data); close(); return -- lines 70-72, 81-83, 91-93, 143-149
Reply(c, data, files, log, o, t) ==
    LET s == sendall(c, data)
    IN  IF s.exc
        THEN Failed(c, files, log, o, t)
        ELSE Outcome("accept", close(s.client), files, log, o, t)

----------------------------------------------------------------------------
(* handle_https_request, up to its first blocking recv.                    *)

\* lines 49-53: the except clause of the tunnel, then client_socket.close().
\* A send that raises inside the except clause leaves handle_https_request
\* and is caught at line 145 of the caller.
TunnelExcept(c, files, t) ==
    LET s == sendall(c, MSG_500)
    IN  IF s.exc
        THEN Failed(c, files, <<>>, NoOrigin, t)
        ELSE Outcome("accept", close(s.client), files, <<>>, NoOrigin, t)

\* line 29: parsed_url.port if parsed_url.port else 443
tunnel_port(p) == IF p.val = NoPort \/ p.val = 0 THEN DEFAULT_TUNNEL_PORT ELSE p.val

\* a variant of handle_https_request that hands the tunnel to another thread
\* and returns to the listener at once
handle_https_request_detached(c, url, files, e) ==
    Outcome("accept", close(c), files, <<>>, NoOrigin,
            [NoTunnel EXCEPT !.state = "relay"])

\* lines 27-36
handle_https_request(c, url, files, e) ==
    LET parsed == urlparse(url)
        host == hostname(parsed)
        p == port(parsed)
        t0 == [NoTunnel EXCEPT !.host = host, !.port = tunnel_port(p)]
    IN  IF p.exc
        THEN \* ValueError at line 29, outside the try of line 31
             Failed(c, files, <<>>, NoOrigin, NoTunnel)
        ELSE IF host = None \/ ~e.connectOK
        THEN \* connect((None, port)) raises TypeError; a refused connect OSError
             TunnelExcept(c, files, [t0 EXCEPT !.state = "failed", !.raw = "closed"])
        ELSE IF ~e.tlsOK
        THEN TunnelExcept(c, files, [t0 EXCEPT !.state = "failed", !.raw = "closed",
                                               !.tls = "closed"])
        ELSE LET t1 == [t0 EXCEPT !.state = "relay", !.raw = "detached",
                                   !.tls = "open"]
                 s == sendall(c, MSG_200)
             IN  IF s.exc
                 THEN TunnelExcept(c, files, [t1 EXCEPT !.state = "failed"])
                 ELSE Outcome("tunnel_crecv", s.client, files, <<>>, NoOrigin, t1)

----------------------------------------------------------------------------
(* handle_client_request, up to its first blocking recv on the origin.     *)

\* a variant of Unpack3 that ignores tokens after the third
Unpack3Lenient(parts) ==
    IF Len(parts) >= 3
    THEN [exc |-> FALSE, method |-> parts[1], url |-> parts[2]]
    ELSE [exc |-> TRUE, method |-> <<>>, url |-> <<>>]

\* line 61: method, url, _ = first_line.split()
Unpack3(parts) ==
    IF Len(parts) = 3
    THEN [exc |-> FALSE, method |-> parts[1], url |-> parts[2]]
    ELSE [exc |-> TRUE, method |-> <<>>, url |-> <<>>]

\* lines 60-61
parse_request_line(req) == Unpack3(SplitWS(Split(req, LF)[1]))

\* a variant of MethodAllowed that compares without regard to case
MethodAllowedCaseless(method) == Lower(method) \in {Lower(GET), Lower(POST)}

\* line 69: method in [b'GET', b'POST']
MethodAllowed(method) == method \in {GET, POST}

\* line 75: the text handed to urlparse
TargetUrl(url) ==
    IF StartsWith(url, HTTP_PREFIX) THEN url ELSE HTTP_SCHEME \o LStrip(url, {"/"})

\* line 77: parsed_url.path or '/'
path_of(parsed) == IF parsed.path = <<>> THEN SLASH ELSE parsed.path

\* a variant of CacheLookup that never finds an entry
CacheLookupNever(method, cache_filename, files) ==
    IF method = GET
    THEN [hit |-> FALSE, log |-> <<"exists">>]
    ELSE [hit |-> FALSE, log |-> <<>>]

\* a variant of CacheLookup that looks the entry up whatever the method
CacheLookupAnyMethod(method, cache_filename, files) ==
    [hit |-> files[cache_filename] # Absent, log |-> <<"exists">>]

\* line 87: method == b'GET' and os.path.exists(cache_filename).
\* The file system is asked only when the method is GET.
CacheLookup(method, cache_filename, files) ==
    IF method = GET
    THEN [hit |-> files[cache_filename] # Absent, log |-> <<"exists">>]
    ELSE [hit |-> FALSE, log |-> <<>>]

\* lines 104-107: the last line after the first that contains Content-Length
RECURSIVE content_length_loop(_, _)
content_length_loop(headers, content_length) ==
    IF headers = <<>> THEN [exc |-> FALSE, val |-> content_length]
    ELSE IF Contains(headers[1], CONTENT_LENGTH)
    THEN LET fields == Split(headers[1], COLON)
         IN  IF Len(fields) < 2 THEN [exc |-> TRUE, val |-> 0]      \* IndexError
             ELSE IF PyInt(fields[2]).exc THEN [exc |-> TRUE, val |-> 0]  \* ValueError
             ELSE content_length_loop(Tail(headers), PyInt(fields[2]).val)
    ELSE content_length_loop(Tail(headers), content_length)

\* line 110: request.split(b'\r\n\r\n')[1] if content_length > 0 else b''
post_body(req, content_length) ==
    IF content_length > 0
    THEN LET pieces == Split(req, CRLFCRLF)
         IN  IF Len(pieces) < 2 THEN [exc |-> TRUE, val |-> <<>>]   \* IndexError
             ELSE [exc |-> FALSE, val |-> pieces[2]]
    ELSE [exc |-> FALSE, val |-> <<>>]

\* lines 100-114: the request written to the origin.  The f-string is kept as
\* its template fields; Connection: close is always present.
full_request(method, req, path, host) ==
    IF method = GET
    THEN [exc |-> FALSE,
          val |-> [method |-> GET, path |-> path, host |-> host, body |-> <<>>]]
    ELSE IF method = POST
    THEN LET cl == content_length_loop(Tail(Split(req, LF)), 0)
             body == post_body(req, cl.val)
         IN  IF cl.exc \/ body.exc
             THEN [exc |-> TRUE, val |-> <<>>]
             ELSE [exc |-> FALSE,
                   val |-> [method |-> POST, path |-> path, host |-> host,
                            content_length |-> cl.val, body |-> body.val]]
    ELSE \* neither branch binds full_request: NameError at line 116
         [exc |-> TRUE, val |-> <<>>]

\* lines 96-116: connect to (host, 80) and write the request
forward(c, method, req, path, host, files, log, e) ==
    LET o1 == [NoOrigin EXCEPT !.conns = 1, !.port = ORIGIN_PORT]
        fr == full_request(method, req, path, host)
    IN  IF ~e.connectOK
        THEN Failed(c, files, log, [o1 EXCEPT !.state = "connect_failed"], NoTunnel)
        ELSE IF fr.exc
        THEN Failed(c, files, log, [o1 EXCEPT !.state = "closed"], NoTunnel)
        ELSE IF ~e.sendOK
        THEN Failed(c, files, log, [o1 EXCEPT !.state = "send_failed"], NoTunnel)
        ELSE Outcome("origin_read", c, files, log,
                     [o1 EXCEPT !.state = "reading", !.sent = <<fr.val>>], NoTunnel)

\* lines 86-93: the cache hit
serve_cached(c, cache_filename, files, log, e) ==
    IF e.cacheReadOK
    THEN Reply(c, files[cache_filename], files, log \o <<"read">>, NoOrigin, NoTunnel)
    ELSE Failed(c, files, log \o <<"read_failed">>, NoOrigin, NoTunnel)

\* lines 74-116
handle_http_request(c, method, url, req, files, e) ==
    LET parsed == urlparse(TargetUrl(url))
        host == hostname(parsed)
        cache_filename == get_cache_filename(url)
        look == CacheLookup(method, cache_filename, files)
    IN  IF host = None
        THEN Reply(c, MSG_400, files, <<>>, NoOrigin, NoTunnel)
        ELSE IF look.hit
        THEN serve_cached(c, cache_filename, files, look.log, e)
        ELSE forward(c, method, req, path_of(parsed), host, files, look.log, e)

\* lines 57-116: everything between recv returning and the next blocking call
handle_client_request(c, req, files, e) ==
    LET line == parse_request_line(req)
    IN  IF line.exc
        THEN Failed(c, files, <<>>, NoOrigin, NoTunnel)
        ELSE IF line.method = CONNECT
        THEN handle_https_request(c, line.url, files, e)
        ELSE IF ~MethodAllowed(line.method)
        THEN Reply(c, MSG_405, files, <<>>, NoOrigin, NoTunnel)
        ELSE handle_http_request(c, line.method, line.url, req, files, e)

----------------------------------------------------------------------------
(* The end of the origin read loop: lines 125-149.                         *)

\* what a cache write may do: open fails, or the first `written` bytes reach
\* the file opened (and truncated) by open(cache_filename, 'wb')
WriteOutcomes(response) ==
    [opened : BOOLEAN, written : 0..Len(response)]

\* a variant of store that writes the entry for an empty response as well
store_any_response(files, cache_filename, response, w) ==
    IF ~w.opened
    THEN [files |-> files, log |-> <<"open_failed">>]
    ELSE [files |-> [files EXCEPT ![cache_filename] = SubSeq(response, 1, w.written)],
          log |-> IF w.written = Len(response) THEN <<"write">>
                  ELSE <<"write_failed">>]

\* lines 134-141: the try around the cache write; nothing is raised to the caller
store(files, cache_filename, response, w) ==
    IF response = <<>>
    THEN [files |-> files, log |-> <<>>]
    ELSE IF ~w.opened
    THEN [files |-> files, log |-> <<"open_failed">>]
    ELSE [files |-> [files EXCEPT ![cache_filename] = SubSeq(response, 1, w.written)],
          log |-> IF w.written = Len(response) THEN <<"write">>
                  ELSE <<"write_failed">>]

\* a variant of finish_response in which a failed cache write is not caught
finish_response_raising(c, cache_filename, files, log, o, w) ==
    LET st == store(files, cache_filename, o.response, w)
    IN  IF st.log \in {<<"open_failed">>, <<"write_failed">>}
        THEN Failed(c, st.files, log \o st.log, [o EXCEPT !.state = "closed"],
                    NoTunnel)
        ELSE Reply(c, o.response, st.files, log \o st.log,
                   [o EXCEPT !.state = "eof"], NoTunnel)

\* lines 134-149 once recv has returned b''
finish_response(c, cache_filename, files, log, o, w) ==
    LET st == store(files, cache_filename, o.response, w)
    IN  Reply(c, o.response, st.files, log \o st.log,
              [o EXCEPT !.state = "eof"], NoTunnel)

----------------------------------------------------------------------------
(* The state machine.                                                      *)

Apply(r) ==
    /\ pc' = r.pc
    /\ client' = r.client
    /\ cache' = r.cache
    /\ cacheLog' = r.cacheLog
    /\ origin' = r.origin
    /\ tunnel' = r.tunnel

\* history: the round trip to the origin, if any, of the connection that has
\* just ended
Summary ==
    IF origin.state = "eof"
    THEN [method |-> reqline.method,
          url |-> reqline.url,
          roundtrip |-> TRUE,
          stored |-> "write" \in Range(cacheLog)]
    ELSE NoPrev

Init ==
    /\ pc = "accept"
    /\ accepted = 0
    /\ request = <<>>
    /\ reqline = parse_request_line(<<>>)
    /\ client = [peer |-> "open", closed |-> TRUE, out |-> <<>>]
    /\ cache = [f \in CacheFiles |-> Absent]
    /\ cacheLog = <<>>
    /\ origin = NoOrigin
    /\ tunnel = NoTunnel
    /\ prev = NoPrev
    /\ cache0 = [f \in CacheFiles |-> Absent]

\* line 159: accept() returns a connection whose peer may already have reset it
Accept ==
    /\ pc = "accept"
    /\ accepted < MaxConns
    /\ accepted' = accepted + 1
    /\ \E peer \in {"open", "reset"} :
           client' = [peer |-> peer, closed |-> FALSE, out |-> <<>>]
    /\ prev' = Summary
    /\ pc' = "recv"
    /\ request' = <<>>
    /\ reqline' = parse_request_line(<<>>)
    /\ cacheLog' = <<>>
    /\ origin' = NoOrigin
    /\ tunnel' = NoTunnel
    /\ cache0' = cache
    /\ UNCHANGED cache

\* line 58 and what follows it without blocking.  When the peer has reset the
\* connection, recv either raises or still returns what had arrived before.
RecvRequest ==
    /\ pc = "recv"
    /\ \/ /\ client.peer = "reset"
          /\ request' = <<>>
          /\ reqline' = parse_request_line(<<>>)
          /\ Apply(Failed(client, cache, <<>>, NoOrigin, NoTunnel))
       \/ \E req \in Requests, e \in Env :
              /\ request' = req
              /\ reqline' = parse_request_line(req)
              /\ Apply(handle_client_request(client, req, cache, e))
    /\ UNCHANGED <<accepted, prev, cache0>>

\* line 120 returns data: lines 121-123
OriginData ==
    /\ pc = "origin_read"
    /\ Len(origin.response) < MaxResp
    /\ origin' = [origin EXCEPT
                      !.response = Append(@, OriginBytes[Len(@) + 1])]
    /\ UNCHANGED <<pc, accepted, request, reqline, client, cache, cacheLog,
                   tunnel, prev, cache0>>

\* line 120 returns b'': lines 121-149
OriginEOF ==
    /\ pc = "origin_read"
    /\ \E w \in WriteOutcomes(origin.response) :
           Apply(finish_response(client,
                                 get_cache_filename(reqline.url),
                                 cache, cacheLog, origin, w))
    /\ UNCHANGED <<accepted, request, reqline, prev, cache0>>

\* line 120 raises (the origin reset the connection): line 145
OriginReset ==
    /\ pc = "origin_read"
    /\ Apply(Failed(client, cache, cacheLog,
                    [origin EXCEPT !.state = "read_failed"], NoTunnel))
    /\ UNCHANGED <<accepted, request, reqline, prev, cache0>>

\* the client resets its connection while the proxy is blocked elsewhere
ClientReset ==
    /\ pc \in {"origin_read", "tunnel_crecv", "tunnel_srecv"}
    /\ client.peer # "reset"
    /\ client' = [client EXCEPT !.peer = "reset"]
    /\ UNCHANGED <<pc, accepted, request, reqline, cache, cacheLog, origin,
                   tunnel, prev, cache0>>

----------------------------------------------------------------------------
(* The tunnel relay: lines 38-53.                                          *)

InTunnel == pc \in {"tunnel_crecv", "tunnel_srecv"}

\* The with block is left: the socket object of line 32 is closed.  After
\* ssl.wrap_socket that object is detached; the wrapped socket is closed by
\* no statement and is released only when its last reference is dropped.
leave_with(t, how) == [t EXCEPT !.state = how]

\* line 39 returned b'' or line 44 returned b'': break, line 53, return
tunnel_break(c, files, t) ==
    Outcome("accept", close(c), files, <<>>, NoOrigin, leave_with(t, "done"))

\* an exception inside the relay loop: lines 49-53
tunnel_raise(c, files, t) == TunnelExcept(c, files, leave_with(t, "failed"))

\* server_socket.sendall(client_data), line 42
upstream_sendall(t, data) ==
    IF t.uPeer = "reset"
    THEN [exc |-> TRUE, tunnel |-> t]
    ELSE [exc |-> FALSE, tunnel |-> [t EXCEPT !.toUp = @ \o data]]

\* lines 39-42: recv returns every byte the client has sent and not yet read
relay_client_data(c, files, t) ==
    LET data == SubSeq(ClientBytes, t.cRead + 1, t.cSent)
        s == upstream_sendall([t EXCEPT !.cRead = t.cSent], data)
    IN  IF s.exc
        THEN tunnel_raise(c, files, s.tunnel)
        ELSE Outcome("tunnel_srecv", c, files, <<>>, NoOrigin, s.tunnel)

\* lines 44-47: recv returns every byte upstream has sent and not yet read
relay_server_data(c, files, t) ==
    LET data == SubSeq(UpstreamBytes, t.uRead + 1, t.uSent)
        t1 == [t EXCEPT !.uRead = t.uSent]
        s == sendall(c, data)
    IN  IF s.exc
        THEN tunnel_raise(c, files, t1)
        ELSE Outcome("tunnel_crecv", s.client, files, <<>>, NoOrigin, t1)

\* a variant of TunnelClientRecv that waits for both sides at once: when the
\* client is silent it relays what upstream has sent
TunnelClientRecvEitherSide ==
    /\ pc = "tunnel_crecv"
    /\ \/ /\ client.peer = "reset"
          /\ Apply(tunnel_raise(client, cache, tunnel))
       \/ /\ client.peer # "reset"
          /\ tunnel.cSent > tunnel.cRead
          /\ Apply(relay_client_data(client, cache, tunnel))
       \/ /\ client.peer # "reset"
          /\ tunnel.cSent = tunnel.cRead
          /\ tunnel.uPeer # "reset"
          /\ tunnel.uSent > tunnel.uRead
          /\ Apply(relay_server_data(client, cache, tunnel))
       \/ /\ client.peer = "fin"
          /\ tunnel.cSent = tunnel.cRead
          /\ Apply(tunnel_break(client, cache, tunnel))
    /\ UNCHANGED <<accepted, request, reqline, prev, cache0>>

\* line 39: client_socket.recv(4096) returns
TunnelClientRecv ==
    /\ pc = "tunnel_crecv"
    /\ \/ /\ client.peer = "reset"
          /\ Apply(tunnel_raise(client, cache, tunnel))
       \/ /\ client.peer # "reset"
          /\ tunnel.cSent > tunnel.cRead
          /\ Apply(relay_client_data(client, cache, tunnel))
       \/ /\ client.peer = "fin"
          /\ tunnel.cSent = tunnel.cRead
          /\ Apply(tunnel_break(client, cache, tunnel))
    /\ UNCHANGED <<accepted, request, reqline, prev, cache0>>

\* line 44: server_socket.recv(4096) returns
TunnelServerRecv ==
    /\ pc = "tunnel_srecv"
    /\ \/ /\ tunnel.uPeer = "reset"
          /\ Apply(tunnel_raise(client, cache, tunnel))
       \/ /\ tunnel.uPeer # "reset"
          /\ tunnel.uSent > tunnel.uRead
          /\ Apply(relay_server_data(client, cache, tunnel))
       \/ /\ tunnel.uPeer = "fin"
          /\ tunnel.uSent = tunnel.uRead
          /\ Apply(tunnel_break(client, cache, tunnel))
    /\ UNCHANGED <<accepted, request, reqline, prev, cache0>>

\* the tunnel's peers
ClientSend ==
    /\ InTunnel
    /\ client.peer = "open"
    /\ tunnel.cSent < MaxTunnel
    /\ tunnel' = [tunnel EXCEPT !.cSent = @ + 1]
    /\ UNCHANGED <<pc, accepted, request, reqline, client, cache, cacheLog,
                   origin, prev, cache0>>

ClientFin ==
    /\ InTunnel
    /\ client.peer = "open"
    /\ client' = [client EXCEPT !.peer = "fin"]
    /\ UNCHANGED <<pc, accepted, request, reqline, cache, cacheLog, origin,
                   tunnel, prev, cache0>>

UpstreamSend ==
    /\ InTunnel
    /\ tunnel.uPeer = "open"
    /\ tunnel.uSent < MaxTunnel
    /\ tunnel' = [tunnel EXCEPT !.uSent = @ + 1]
    /\ UNCHANGED <<pc, accepted, request, reqline, client, cache, cacheLog,
                   origin, prev, cache0>>

UpstreamFin ==
    /\ InTunnel
    /\ tunnel.uPeer = "open"
    /\ tunnel' = [tunnel EXCEPT !.uPeer = "fin"]
    /\ UNCHANGED <<pc, accepted, request, reqline, client, cache, cacheLog,
                   origin, prev, cache0>>

UpstreamReset ==
    /\ InTunnel
    /\ tunnel.uPeer # "reset"
    /\ tunnel' = [tunnel EXCEPT !.uPeer = "reset"]
    /\ UNCHANGED <<pc, accepted, request, reqline, client, cache, cacheLog,
                   origin, prev, cache0>>

Next ==
    \/ Accept
    \/ RecvRequest
    \/ OriginData
    \/ OriginEOF
    \/ OriginReset
    \/ ClientReset
    \/ TunnelClientRecv
    \/ TunnelServerRecv
    \/ ClientSend
    \/ ClientFin
    \/ UpstreamSend
    \/ UpstreamFin
    \/ UpstreamReset

Spec == Init /\ [][Next]_vars

\* The proxy's thread runs whenever the recv it is blocked in can return.
FairSpec ==
    Spec /\ WF_vars(TunnelClientRecv) /\ WF_vars(TunnelServerRecv)

----------------------------------------------------------------------------
(* Properties.                                                             *)

\* handle_client_request has returned, or has stopped with an exception
Done == accepted > 0 /\ pc \in {"accept", "crashed"}

\* the request line of the current connection
Line == reqline

\* the client has not reset its connection: what the proxy sends arrives
Connected == client.peer # "reset"

\* the whitespace-separated tokens of the first line of the request
Tokens == SplitWS(Split(request, LF)[1])

CacheReads == {"exists", "read", "read_failed"}
CacheWrites == {"write", "write_failed", "open_failed"}

\* C1: on every exit path of the dispatcher, a failing send to the client
\* included, the client connection has been closed when it returns or stops.
C1_ClientClosedOnEveryExit == Done => client.closed

\* C2: no failure while handling a connection stops the listener loop.
C2_ListenerNeverStops == pc # "crashed"

\* C3 as stated: after a request that completed a round trip to the origin,
\* the next valid GET or POST for the same URL is answered from the cache and
\* opens no origin connection.  (The round trip is taken to have stored its
\* response: a weaker statement than the claim's.)
C3_SecondRequestFromCache ==
    (/\ Done
     /\ prev.stored
     /\ ~Line.exc
     /\ Line.method \in {GET, POST}
     /\ Line.url = prev.url)
    => (origin.conns = 0 /\ "exists" \in Range(cacheLog))

\* C3 as amended: after a request whose non-empty origin response was written
\* to the cache, the next GET for the same URL opens no origin connection, is
\* looked up in the cache and, when the file is read and the client is still
\* connected, is answered with exactly the cached bytes.
C3_SecondGetFromCache ==
    (/\ Done
     /\ prev.stored
     /\ ~Line.exc
     /\ Line.method = GET
     /\ Line.url = prev.url)
    => /\ origin.conns = 0
       /\ cacheLog \in {<<"exists", "read">>, <<"exists", "read_failed">>}
       /\ (Connected /\ "read" \in Range(cacheLog))
              => client.out = <<cache[get_cache_filename(Line.url)]>>

C3_Witness ==
    /\ Done
    /\ prev.stored
    /\ prev.method = POST
    /\ Line.method = GET
    /\ Line.url = prev.url
    /\ cacheLog = <<"exists", "read">>
    /\ client.out = <<cache[get_cache_filename(Line.url)]>>
    /\ cache[get_cache_filename(Line.url)] # <<>>

\* C4: a GET with a resolvable host whose cache entry exists opens no origin
\* connection, leaves the cache unchanged and (the entry read, the client
\* connected) writes exactly the stored bytes; POST and CONNECT never consult
\* the cache.
C4_CacheHit ==
    /\ (/\ ~Line.exc
        /\ Line.method = GET
        /\ hostname(urlparse(TargetUrl(Line.url))) # None
        /\ cache0[get_cache_filename(Line.url)] # Absent)
       => /\ origin.conns = 0
          /\ cache = cache0
          /\ Done
          /\ (Connected /\ "read" \in Range(cacheLog))
                 => /\ client.out = <<cache0[get_cache_filename(Line.url)]>>
                    /\ client.closed
    /\ (~Line.exc /\ Line.method \in {POST, CONNECT})
           => Range(cacheLog) \cap CacheReads = {}

C4_Witness ==
    /\ Done
    /\ Line.method = GET
    /\ cacheLog = <<"exists", "read">>
    /\ origin.conns = 0
    /\ cache[get_cache_filename(Line.url)] \notin {Absent, <<>>}
    /\ client.out = <<cache[get_cache_filename(Line.url)]>>

\* C5: a three-token request line whose method is not GET, POST or CONNECT
\* (compared case-sensitively) gets exactly the 405 message, the connection
\* is closed, no origin or upstream connection is made and the cache is
\* neither read nor written, whatever the target.
C5_MethodNotAllowed ==
    (/\ Done
     /\ Connected
     /\ Len(Tokens) = 3
     /\ Tokens[1] \notin {GET, POST, CONNECT})
    => /\ client.out = <<MSG_405>>
       /\ client.closed
       /\ origin.conns = 0
       /\ tunnel.state = "none"
       /\ cacheLog = <<>>

C5_Witness ==
    /\ Done
    /\ Tokens = <<LowerGet, UrlAX, VERSION>>
    /\ client.out = <<MSG_405>>
    /\ client.closed

\* C6: a request whose first line does not split into exactly three tokens
\* gets exactly the 400 message and nothing else, with no origin or upstream
\* connection and no cache access.
C6_BadRequestLine ==
    (/\ Done
     /\ Connected
     /\ Len(Tokens) # 3)
    => /\ client.out = <<MSG_400>>
       /\ client.closed
       /\ origin.conns = 0
       /\ tunnel.state = "none"
       /\ cacheLog = <<>>

C6_Witness ==
    /\ Done
    /\ Len(Tokens) = 4
    /\ client.out = <<MSG_400>>
    /\ origin.conns = 0

\* C7: in an established tunnel, until either peer closes, every chunk the
\* client has sent reaches upstream and every chunk upstream has sent reaches
\* the client.
C7_EveryChunkDelivered ==
    /\ (InTunnel /\ tunnel.cSent > tunnel.cRead)
           ~> \/ ~InTunnel
              \/ client.peer # "open"
              \/ tunnel.uPeer # "open"
              \/ Len(tunnel.toUp) = tunnel.cSent
    /\ (InTunnel /\ tunnel.uSent > tunnel.uRead)
           ~> \/ ~InTunnel
              \/ client.peer # "open"
              \/ tunnel.uPeer # "open"
              \/ tunnel.uRead = tunnel.uSent

\* C8: a CONNECT whose upstream connection is not established (target parse,
\* TCP connect or TLS handshake failed) is answered with the 500 message and
\* never with 200 Connection Established.
C8_PreConnectFailureYields500 ==
    (/\ Done
     /\ Connected
     /\ ~Line.exc
     /\ Line.method = CONNECT
     /\ tunnel.tls # "open")
    => client.out = <<MSG_500>>

\* the first n bytes of s, or all of s when it is shorter
Take(s, n) == SubSeq(s, 1, IF n < Len(s) THEN n ELSE Len(s))

\* C9: the body of a forwarded POST with Content-Length n > 0 is exactly the
\* first n bytes after the first blank-line separator of the raw request.
C9_BodyIsFirstNBytes ==
    \A i \in 1..Len(origin.sent) :
        (origin.sent[i].method = POST /\ origin.sent[i].content_length > 0)
            => origin.sent[i].body =
                   Take(From(request, Find(request, CRLFCRLF) + Len(CRLFCRLF)),
                        origin.sent[i].content_length)

\* C10: when the cache write fails after a non-empty origin response, the
\* client still gets the complete response, unmodified, and no 400.
C10_CacheWriteFailureNotSurfaced ==
    (/\ Done
     /\ Connected
     /\ Range(cacheLog) \cap {"open_failed", "write_failed"} # {})
    => /\ origin.response # <<>>
       /\ client.out = <<origin.response>>
       /\ client.closed
       /\ pc = "accept"

C10_Witness ==
    /\ Done
    /\ "write_failed" \in Range(cacheLog)
    /\ Len(origin.response) = MaxResp
    /\ client.out = <<origin.response>>
    /\ cache[get_cache_filename(Line.url)] # origin.response

\* C11: whenever a cache entry exists for a URL, it holds exactly the bytes of
\* the most recent complete origin response for that URL: once the origin
\* read loop of a request has run to end-of-stream with a non-empty response,
\* the entry of that request's URL, if there is one, is that response, never
\* an empty or partial file.
C11_EntryIsLastFullResponse ==
    (/\ Done
     /\ origin.state = "eof"
     /\ origin.response # <<>>
     /\ cache[get_cache_filename(Line.url)] # Absent)
    => cache[get_cache_filename(Line.url)] = origin.response

\* C12: connections are handled strictly one at a time.  While a request is
\* in progress (its origin response is being read, or its tunnel is relaying)
\* the only thread is inside that dispatcher, blocked in one of its reads, and
\* so is not in accept; whenever the thread is back in accept, the connection
\* it accepted last has been closed and none of its work is still going on.
C12_OneConnectionAtATime ==
    /\ (origin.state = "reading" \/ tunnel.state = "relay")
           => pc \in {"origin_read", "tunnel_crecv", "tunnel_srecv"}
    /\ ~(origin.state = "reading" /\ tunnel.state = "relay")
    /\ (pc = "accept" /\ accepted > 0)
           => /\ client.closed
              /\ origin.state # "reading"
              /\ tunnel.state # "relay"

C12_Witness ==
    /\ pc = "accept"
    /\ accepted = 1
    /\ tunnel.state = "done"
    /\ tunnel.toUp # <<>>
    /\ tunnel.uRead > 0
    /\ client.closed

\* the relay loop of lines 38-47 was entered: the 200 message was written
RelayStarted == client.out # <<>> /\ client.out[1] = MSG_200

\* C13: when the relay loop has ended, by a zero-byte read on either side or
\* by an exception, both the client connection and the TLS-wrapped upstream
\* connection have been closed.
C13_BothSocketsClosedAfterRelay ==
    (/\ Done
     /\ RelayStarted
     /\ tunnel.state \in {"done", "failed"})
    => /\ client.closed
       /\ tunnel.tls = "closed"

\* the origin could not be connected, or the send to it or a read from it raised
OriginFailed == origin.state \in {"connect_failed", "send_failed", "read_failed"}

\* C14: for a GET or POST, a failed connect to the origin or an error while
\* sending to or reading from it ends in the handler of line 145: the client
\* (still connected) gets exactly the 400 message and is closed, the cache is
\* as it was, and the origin was connected to once only.
C14_OriginFailureYields400 ==
    (/\ Done
     /\ Connected
     /\ OriginFailed)
    => /\ Line.method \in {GET, POST}
       /\ client.out = <<MSG_400>>
       /\ client.closed
       /\ pc = "accept"
       /\ cache = cache0
       /\ Range(cacheLog) \cap CacheWrites = {}
       /\ origin.conns = 1

C14_Witness ==
    /\ Done
    /\ origin.state = "read_failed"
    /\ Len(origin.response) = MaxResp
    /\ Line.method = POST
    /\ client.out = <<MSG_400>>
    /\ cache = cache0

\* a target of the form host/path with no URL scheme
SchemelessHostPath(url) ==
    /\ url # <<>>
    /\ url[1] # "/"
    /\ Contains(url, SLASH)
    /\ urlparse(url).scheme = <<>>

\* C15: a GET or POST whose target is a scheme-less host/path, the host's name
\* beginning with the letters http included, is forwarded to that host: when
\* it is not answered from the cache, a connection to the origin is opened
\* and the request written to it names the host before the first slash.
C15_SchemelessTargetForwarded ==
    (/\ Done
     /\ ~Line.exc
     /\ Line.method \in {GET, POST}
     /\ SchemelessHostPath(Line.url)
     /\ cache0[get_cache_filename(Line.url)] = Absent)
    => /\ origin.conns = 1
       /\ \A i \in 1..Len(origin.sent) :
              origin.sent[i].host = Lower(Split(Line.url, SLASH)[1])

\* the origin read loop of a GET or POST ran to end-of-stream with a non-empty
\* accumulated response
CompleteRoundTrip ==
    /\ ~Line.exc
    /\ Line.method \in {GET, POST}
    /\ origin.state = "eof"
    /\ origin.response # <<>>

\* C16: the cache is written only by a GET or POST whose origin read loop ran
\* to end-of-stream with a non-empty response, and such a request always
\* writes the entry of its own key, whatever the entry held (a successful
\* write leaves exactly the response there); after every other outcome every
\* cache entry is as it was when the connection was accepted.
C16_OnlyCompleteRoundTripWrites ==
    /\ (cache # cache0 \/ Range(cacheLog) \cap CacheWrites # {})
           => /\ CompleteRoundTrip
              /\ \A f \in CacheFiles \ {get_cache_filename(Line.url)} :
                     cache[f] = cache0[f]
    /\ (Done /\ CompleteRoundTrip) => Range(cacheLog) \cap CacheWrites # {}
    /\ "write" \in Range(cacheLog)
           => cache[get_cache_filename(Line.url)] = origin.response

C16_Witness ==
    /\ Done
    /\ Line.method = POST
    /\ "write" \in Range(cacheLog)
    /\ cache0[get_cache_filename(Line.url)] \notin {Absent, origin.response}
    /\ cache[get_cache_filename(Line.url)] = origin.response

\* the integer value of the first line after the request line that contains
\* Content-Length, and 0 when there is none
FirstContentLength(req) ==
    LET headers == Tail(Split(req, LF))
        hits == {i \in 1..Len(headers) : Contains(headers[i], CONTENT_LENGTH)}
    IN  IF hits = {} THEN 0
        ELSE PyInt(Split(headers[Min(hits)], COLON)[2]).val

\* C17: the Content-Length of a forwarded POST is the value of the first
\* matching header line of the request, 0 when there is none; later matching
\* lines do not change it.
C17_FirstContentLengthForwarded ==
    \A i \in 1..Len(origin.sent) :
        origin.sent[i].method = POST
            => origin.sent[i].content_length = FirstContentLength(request)

\* C18: the relay alternates one client read with one upstream read.  While
\* it is blocked waiting for a silent client it reads nothing from upstream,
\* whatever upstream has sent, and stays blocked there; symmetrically for
\* a silent upstream; and a read on one side is followed only by a read on
\* the other side or by the end of the relay.
C18_RelayBlocksOnSilentSide ==
    [][/\ (/\ pc = "tunnel_crecv"
           /\ client.peer = "open"
           /\ tunnel.cSent = tunnel.cRead)
          => /\ pc' = "tunnel_crecv"
             /\ tunnel'.uRead = tunnel.uRead
             /\ client'.out = client.out
       /\ (/\ pc = "tunnel_srecv"
           /\ tunnel.uPeer = "open"
           /\ tunnel.uSent = tunnel.uRead)
          => /\ pc' = "tunnel_srecv"
             /\ tunnel'.cRead = tunnel.cRead
             /\ tunnel'.toUp = tunnel.toUp
       /\ (pc = "tunnel_crecv" /\ tunnel'.cRead # tunnel.cRead)
          => pc' \in {"tunnel_srecv", "accept", "crashed"}
       /\ (pc = "tunnel_srecv" /\ tunnel'.uRead # tunnel.uRead)
          => pc' \in {"tunnel_crecv", "accept", "crashed"}]_vars

\* upstream data is pending while the relay waits for a silent client
C18_Witness ==
    /\ pc = "tunnel_crecv"
    /\ client.peer = "open"
    /\ tunnel.uPeer = "open"
    /\ tunnel.cSent = tunnel.cRead
    /\ tunnel.cRead > 0
    /\ tunnel.uSent > tunnel.uRead
    /\ tunnel.uRead > 0

\* C19: on one client connection the proxy writes at most one of its own
\* status messages (200, 400, 405, 500), and a 400 or 500 is never written
\* after a 200, a cached payload or an origin response.
C19_AtMostOneStatusMessage ==
    /\ Cardinality({i \in 1..Len(client.out) : client.out[i] \in StatusMessages}) <= 1
    /\ \A i \in 2..Len(client.out) : client.out[i] \notin {MSG_400, MSG_500}

\* C20: what a GET gets on a cache hit was the origin's response to a GET for
\* the same literal URL: when the entry it is served was stored by the request
\* just before it, that request was a GET and not a POST.
C20_HitServesGetResponse ==
    (/\ Done
     /\ ~Line.exc
     /\ Line.method = GET
     /\ "read" \in Range(cacheLog)
     /\ prev.stored
     /\ prev.url = Line.url)
    => prev.method = GET

====
